---------------------------- MODULE Spec2Model ----------------------------
(***************************************************************************)
(* A model of the offeryn MCP server: the tool registry and the JSON-RPC   *)
(* dispatcher (McpServer), the tools generated by the two derive macros,   *)
(* the line-framed stdio transport and the session-multiplexed SSE         *)
(* transport.                                                              *)
(***************************************************************************)
EXTENDS Integers, Sequences, FiniteSets, TLC

(***************************************************************************)
(* JSON values (serde_json::Value), tagged by kind.                        *)
(***************************************************************************)
JNull == [j |-> "null"]
JNum(n) == [j |-> "num", v |-> n]
JStr(s) == [j |-> "str", v |-> s]
JBool(b) == [j |-> "bool", v |-> b]
JObj(f) == [j |-> "obj", v |-> f]
JArr(s) == [j |-> "arr", v |-> s]

\* The object with no members.
EmptyObject == [x \in {} |-> JNull]

(***************************************************************************)
(* jsonrpc_core::Id and the ids a JSON document can carry.                 *)
(***************************************************************************)
IdNull == [t |-> "Null"]
IdNum(n) == [t |-> "Num", n |-> n]
IdStr(s) == [t |-> "Str", s |-> s]

\* A serializer that keeps numeric ids only.
JsonOfIdNumeric(id) == IF id.t = "Num" THEN JNum(id.n) ELSE JNull

\* Serialize for Id: Num as a number, Str as a string, Null as null.
JsonOfId(id) ==
    CASE id.t = "Num" -> JNum(id.n)
      [] id.t = "Str" -> JStr(id.s)
      [] OTHER -> JNull

(***************************************************************************)
(* jsonrpc_core::ErrorCode: the numeric code and default message of each.  *)
(***************************************************************************)
ErrorCodeNum(code) ==
    CASE code = "ParseError" -> -32700
      [] code = "InvalidRequest" -> -32600
      [] code = "MethodNotFound" -> -32601
      [] code = "InvalidParams" -> -32602
      [] code = "InternalError" -> -32603
      [] OTHER -> -32000

\* An error that always carries the generic message.
ErrorMessageGeneric(code) == "Server error"

\* JsonRpcError::new(code): the default message of the code.
ErrorMessage(code) ==
    CASE code = "ParseError" -> "Parse error"
      [] code = "InvalidRequest" -> "Invalid request"
      [] code = "MethodNotFound" -> "Method not found"
      [] code = "InvalidParams" -> "Invalid params"
      [] code = "InternalError" -> "Internal error"
      [] OTHER -> "Server error"

(***************************************************************************)
(* Response envelopes (jsonrpc_core::Output) and the outcome of            *)
(* handle_request: Ok(response), Err(McpError) or a panic.                 *)
(***************************************************************************)
Success(id, result) == [kind |-> "Success", id |-> id, result |-> result]
Failure(id, code) == [kind |-> "Failure", id |-> id, code |-> code]

Ok(resp) == [tag |-> "Ok", resp |-> resp]
Err(e) == [tag |-> "Err", err |-> e]
Panicked == [tag |-> "Panic"]

\* serde_json::to_vec / to_string of a Response: the document one line holds.
Serialize(resp) ==
    IF resp.kind = "Success"
    THEN [jsonrpc |-> "2.0", result |-> resp.result, id |-> JsonOfId(resp.id)]
    ELSE [jsonrpc |-> "2.0",
          error |-> [code |-> ErrorCodeNum(resp.code),
                     message |-> ErrorMessage(resp.code)],
          id |-> JsonOfId(resp.id)]


(***************************************************************************)
(* Tool descriptors.  A tool is either generated by one of the two derive  *)
(* macros (offeryn_derive::tool, mcp_derive::mcp_tool) from a method       *)
(* signature, or a hand-written implementation of the McpTool trait.       *)
(***************************************************************************)
Param(name, ty, optional) == [name |-> name, ty |-> ty, optional |-> optional]

DerivedTool(derive, name, description, method, params, returns) ==
    [name |-> name, description |-> description, derive |-> derive,
     method |-> method, params |-> params, returns |-> returns]

ManualTool(name, description, method) ==
    [name |-> name, description |-> description, derive |-> "manual",
     method |-> method, params |-> <<>>, returns |-> "ToolResult"]

\* Calculator::add.  Under #[tool] (the stdio transport's test) it is
\* async fn add(&self, a: i64, b: i64) -> Result<i64, String>; under
\* #[mcp_tool] (the examples and the SSE tests) it returns the plain sum.
CalculatorAdd(derive) ==
    DerivedTool(derive, "calculator_add", "Add two numbers", "add",
                <<Param("a", "i64", FALSE), Param("b", "i64", FALSE)>>,
                IF derive = "mcp" THEN "Value" ELSE "Result")

\* async fn divide(&self, a: i64, b: i64) -> Result<f64, String>
CalculatorDivide(derive) ==
    DerivedTool(derive, "calculator_divide", "Divide two numbers", "divide",
                <<Param("a", "i64", FALSE), Param("b", "i64", FALSE)>>, "Result")

\* The hand-written tool of the server tests: echoes its "echo" argument.
MockTool == ManualTool("mock_tool", "A mock tool for testing", "echo")

\* Any other implementation of McpTool: execute may return whatever the
\* trait's signature allows.
RawTool == ManualTool("raw_tool", "", "any")

(***************************************************************************)
(* Outcomes of McpTool::execute: Ok(ToolResult), Err(String) or a panic.   *)
(***************************************************************************)
ToolContent(ty, text) == [type |-> ty, text |-> text]
ExecOk(content, is_error) == [r |-> "Ok", content |-> content, is_error |-> is_error]
ExecErr(msg) == [r |-> "Err", msg |-> msg]
ExecPanic == [r |-> "Panic"]

\* serde_json::from_value::<T> for the parameter types in use.
FromValue(ty, v) ==
    CASE ty = "i64" /\ v.j = "num" -> [st |-> "ok", val |-> v.v]
      [] ty = "String" /\ v.j = "str" -> [st |-> "ok", val |-> v.v]
      [] OTHER -> [st |-> "err", msg |-> "invalid type"]

\* The expression generate_param_deserialization emits for one parameter:
\* a missing required parameter is an Err, an absent optional one is None,
\* and one that is present is deserialized as the type inside the Option.
OfferynDeser(p, args) ==
    IF p.optional
    THEN IF p.name \notin DOMAIN args
         THEN [st |-> "ok", val |-> "None"]
         ELSE FromValue(p.ty, args[p.name])
    ELSE IF p.name \notin DOMAIN args
         THEN [st |-> "err", msg |-> "Missing required parameter"]
         ELSE FromValue(p.ty, args[p.name])

\* The expression mcp_tool emits: args[name] indexes the argument map, and
\* indexing a serde_json::Map by a key it does not hold panics.
McpDeser(p, args) ==
    IF p.name \notin DOMAIN args
    THEN [st |-> "panic"]
    ELSE IF p.optional /\ args[p.name].j = "null"
         THEN [st |-> "ok", val |-> "None"]
         ELSE FromValue(p.ty, args[p.name])

DeserArg(derive, p, args) ==
    IF derive = "mcp" THEN McpDeser(p, args) ELSE OfferynDeser(p, args)

\* f64's Display for the quotient a / b (b > 0) of two small integers.
FormatF64(a, b) ==
    IF a % b = 0 THEN ToString(a \div b)
    ELSE IF (2 * a) % b = 0 THEN ToString(a \div b) \o ".5"
    ELSE ToString(a \div b) \o ".?"

\* The bodies of the tool methods: the value returned, as text.
CallMethod(method, vals) ==
    CASE method = "add" -> [ok |-> TRUE, text |-> ToString(vals[1] + vals[2])]
      [] method = "divide" ->
            IF vals[2] = 0
            THEN [ok |-> FALSE, text |-> "Cannot divide by zero"]
            ELSE [ok |-> TRUE, text |-> FormatF64(vals[1], vals[2])]
      [] OTHER -> [ok |-> TRUE, text |-> ""]

\* A tool that reports its method's failure as a hard failure.
ResultHandlingHard(tool, r) ==
    IF tool.returns = "Result" /\ ~r.ok
    THEN ExecErr(r.text)
    ELSE ExecOk(<<ToolContent("text", r.text)>>, FALSE)

\* result_handling: both outcomes of the method become Ok(ToolResult).
ResultHandling(tool, r) ==
    IF tool.returns = "Result"
    THEN ExecOk(<<ToolContent("text", r.text)>>, ~r.ok)
    ELSE ExecOk(<<ToolContent("text", r.text)>>, FALSE)

\* execute_impl of a derived tool.  The arguments of the method call are
\* evaluated left to right, so the first one that fails decides.
DerivedExecute(tool, args) ==
    IF tool.params = <<>>
    THEN IF DOMAIN args /= {}
         THEN ExecErr("Expected no arguments")
         ELSE ResultHandling(tool, CallMethod(tool.method, <<>>))
    ELSE LET ds == [i \in 1..Len(tool.params) |->
                        DeserArg(tool.derive, tool.params[i], args)]
             bad == {i \in 1..Len(tool.params) : ds[i].st /= "ok"}
             first == CHOOSE i \in bad : \A k \in bad : i <= k
         IN  IF bad = {}
             THEN ResultHandling(tool,
                      CallMethod(tool.method,
                                 [i \in 1..Len(tool.params) |-> ds[i].val]))
             ELSE IF ds[first].st = "panic" THEN ExecPanic
             ELSE ExecErr(ds[first].msg)

\* MockTool::execute: args["echo"].as_str().ok_or("Missing echo parameter")?
MockExecute(args) ==
    IF "echo" \in DOMAIN args /\ args["echo"].j = "str"
    THEN ExecOk(<<ToolContent("text", args["echo"].v)>>, FALSE)
    ELSE ExecErr("Missing echo parameter")

\* What an arbitrary McpTool may return: any list of content items of any
\* declared type, either flag, or a hard failure.
RawContents ==
    {<<>>, <<ToolContent("text", "x")>>,
     <<ToolContent("image", "y"), ToolContent("text", "x")>>,
     <<ToolContent("text", "x"), ToolContent("text", "y")>>}

RawOutcomes ==
    {ExecOk(c, e) : c \in RawContents, e \in BOOLEAN} \cup {ExecErr("failed")}

\* McpTool::execute, as the set of results the call may produce.
ExecuteOutcomes(tool, args) ==
    CASE tool.derive = "manual" /\ tool.method = "echo" -> {MockExecute(args)}
      [] tool.derive = "manual" -> RawOutcomes
      [] OTHER -> {DerivedExecute(tool, args)}

(***************************************************************************)
(* Request envelopes (jsonrpc_core::Request) and their params.             *)
(***************************************************************************)
ParamsNone == [p |-> "None"]
ParamsArray == [p |-> "Array"]
ParamsMap(m) == [p |-> "Map", m |-> m]

MethodCall(id, method, params) ==
    [k |-> "MethodCall", id |-> id, method |-> method, params |-> params]
Notification(method, params) ==
    [k |-> "Notification", method |-> method, params |-> params]
InvalidCall(id) == [k |-> "Invalid", id |-> id]
Batch == [k |-> "Batch"]

(***************************************************************************)
(* The registry: McpServer.tools, a map from tool name to descriptor.      *)
(***************************************************************************)
EmptyRegistry == [n \in {} |-> MockTool]

\* A registry that keeps the first descriptor registered under a name.
InsertKeepFirst(reg, tool) ==
    [n \in DOMAIN reg \cup {tool.name} |-> IF n \in DOMAIN reg THEN reg[n] ELSE tool]

\* HashMap::insert(name, tool): a later registration of a name replaces
\* the earlier one.
Insert(reg, tool) ==
    [n \in DOMAIN reg \cup {tool.name} |-> IF n = tool.name THEN tool ELSE reg[n]]

RECURSIVE InsertAll(_, _)
\* with_tools / register_tools: insert each tool of the list in order.
InsertAll(reg, list) ==
    IF list = <<>> THEN reg
    ELSE InsertAll(Insert(reg, Head(list)), Tail(list))

\* HasTools::tools of a derived Calculator: one tool per method.
CalculatorTools(derive) == <<CalculatorAdd(derive), CalculatorDivide(derive)>>

(***************************************************************************)
(* The input schema a tool reports.                                        *)
(***************************************************************************)
\* The type of a property; the schema of an Option<T> parameter has the
\* type of T and "null" (nullable).
SchemaType(ty) == IF ty = "i64" THEN "integer" ELSE "string"

InputSchema(tool) ==
    IF tool.derive = "manual"
    THEN [type |-> "object",
          properties |-> [n \in {"echo"} |-> [type |-> "string", nullable |-> FALSE]],
          required |-> {}]
    ELSE [type |-> "object",
          properties |->
              [n \in {tool.params[i].name : i \in 1..Len(tool.params)} |->
                  LET i == CHOOSE k \in 1..Len(tool.params) : tool.params[k].name = n
                  IN  [type |-> SchemaType(tool.params[i].ty),
                       nullable |-> tool.params[i].optional]],
          required |->
              {tool.params[i].name : i \in
                  {k \in 1..Len(tool.params) :
                      tool.derive = "mcp" \/ ~tool.params[k].optional}}]

(***************************************************************************)
(* McpServer::handle_request.                                              *)
(***************************************************************************)
ServerName == "test-server"
ServerVersion == "1.0.0"
LATEST_PROTOCOL_VERSION == "2024-11-05"

\* An initialize that advertises no tools.
InitializeResultNoTools(reg) ==
    [protocolVersion |-> LATEST_PROTOCOL_VERSION,
     capabilities |-> [tools |-> [n \in {} |-> TRUE]],
     serverInfo |-> [name |-> ServerName, version |-> ServerVersion],
     instructions |-> "Use tools/list to see available tools"]

\* The "initialize" arm: the result built from the server's fields.
InitializeResult(reg) ==
    [protocolVersion |-> LATEST_PROTOCOL_VERSION,
     capabilities |-> [tools |-> [n \in DOMAIN reg |-> TRUE]],
     serverInfo |-> [name |-> ServerName, version |-> ServerVersion],
     instructions |-> "Use tools/list to see available tools"]

\* A listing that always names a next page.
ListToolsResultPaged(reg) ==
    [tools |-> {[name |-> reg[n].name,
                 description |-> reg[n].description,
                 inputSchema |-> InputSchema(reg[n])] : n \in DOMAIN reg},
     nextPageToken |-> ""]

\* next_page_token is None and skipped when serializing.
ListToolsResult(reg) ==
    [tools |-> {[name |-> reg[n].name,
                 description |-> reg[n].description,
                 inputSchema |-> InputSchema(reg[n])] : n \in DOMAIN reg}]

\* CallToolResult from a ToolResult: every item becomes Content::Text.
CallToolResult(out) ==
    [content |-> [i \in 1..Len(out.content) |->
                     [type |-> "text", text |-> out.content[i].text]],
     isError |-> out.is_error]

\* CallToolRequest.arguments: Option<HashMap<String, Value>>.
NoArguments == [some |-> FALSE]
SomeArguments(m) == [some |-> TRUE, m |-> m]

\* serde_json::from_value::<CallToolRequest>: name must be a string,
\* arguments an object (Some), or null or absent (None).
ParseCallToolRequest(m) ==
    IF "name" \notin DOMAIN m \/ m["name"].j /= "str"
    THEN [ok |-> FALSE]
    ELSE IF "arguments" \notin DOMAIN m \/ m["arguments"].j = "null"
    THEN [ok |-> TRUE, name |-> m["name"].v, arguments |-> NoArguments]
    ELSE IF m["arguments"].j = "obj"
    THEN [ok |-> TRUE, name |-> m["name"].v, arguments |-> SomeArguments(m["arguments"].v)]
    ELSE [ok |-> FALSE]

\* A dispatcher that hands the tool {"arguments": null} when the arguments
\* are absent.
ArgumentsValueNull(a) == IF a.some THEN a.m ELSE [x \in {"arguments"} |-> JNull]

\* match request.arguments { Some(args) => Object(args), None => json!({}) }
ArgumentsValue(a) == IF a.some THEN a.m ELSE EmptyObject

Invoke(id, tool, args) == [tag |-> "Invoke", id |-> id, tool |-> tool, args |-> args]

\* handle_request up to the point where it awaits tool.execute: either the
\* outcome of the whole call, or the invocation it goes on to await.
Route(reg, request) ==
    IF request.k /= "MethodCall" THEN Err("InvalidRequest")
    ELSE CASE request.method = "initialize" ->
                Ok(Success(request.id, InitializeResult(reg)))
           [] request.method = "tools/list" ->
                Ok(Success(request.id, ListToolsResult(reg)))
           [] request.method = "tools/call" ->
                IF request.params.p /= "Map" THEN Err("InvalidParams")
                ELSE LET call == ParseCallToolRequest(request.params.m)
                     IN  IF ~call.ok THEN Err("InvalidParams")
                         ELSE IF call.name \notin DOMAIN reg
                         THEN Err("MethodNotFound")
                         ELSE Invoke(request.id, reg[call.name],
                                     ArgumentsValue(call.arguments))
           [] OTHER -> Ok(Failure(request.id, "MethodNotFound"))

\* A dispatcher that turns a ToolResult flagged is_error into a Failure.
CompleteFlagAsFailure(id, out) ==
    CASE out.r = "Ok" /\ ~out.is_error -> Ok(Success(id, CallToolResult(out)))
      [] out.r = "Ok" -> Ok(Failure(id, "ServerError"))
      [] out.r = "Err" -> Ok(Failure(id, "ServerError"))
      [] OTHER -> Panicked

\* handle_request after tool.execute has returned `out`.
Complete(id, out) ==
    CASE out.r = "Ok" -> Ok(Success(id, CallToolResult(out)))
      [] out.r = "Err" -> Ok(Failure(id, "ServerError"))
      [] OTHER -> Panicked

\* A conversion that reports every error as a server error.
ToJsonRpcErrorGeneric(e) == [code |-> -32000, message |-> "Server error"]

\* impl From<McpError> for JsonRpcError
ToJsonRpcError(e) ==
    CASE e = "InvalidRequest" -> [code |-> -32600, message |-> "Invalid request"]
      [] e = "InvalidParams" -> [code |-> -32602, message |-> "Invalid parameters"]
      [] e = "MethodNotFound" -> [code |-> -32601, message |-> "Method not found"]
      [] OTHER -> [code |-> -32000, message |-> "Server error"]

\* What a caller of handle_request gets when it converts the outcome's
\* McpError, if there is one, into a protocol error object.
ErrorObject(res) == IF res.tag = "Err" THEN ToJsonRpcError(res.err) ELSE [code |-> 0]

\* Every outcome a call of handle_request may have.
HandleRequest(reg, request) ==
    LET r == Route(reg, request)
    IN  IF r.tag = "Invoke"
        THEN {Complete(r.id, out) : out \in ExecuteOutcomes(r.tool, r.args)}
        ELSE {r}

(***************************************************************************)
(* The requests and tools the model draws its inputs from.                 *)
(***************************************************************************)
Obj1(k1, v1) == [x \in {k1} |-> v1]
Obj2(k1, v1, k2, v2) == [x \in {k1, k2} |-> IF x = k1 THEN v1 ELSE v2]

\* params of tools/call: {name, arguments} and {name} alone.
CallParams(name, args) == Obj2("name", JStr(name), "arguments", JObj(args))
CallParamsNoArgs(name) == Obj1("name", JStr(name))

AddOk == CallParams("calculator_add", Obj2("a", JNum(1), "b", JNum(2)))
AddMissingB == CallParams("calculator_add", Obj1("a", JNum(1)))
AddBadType == CallParams("calculator_add", Obj2("a", JStr("x"), "b", JNum(2)))
AddNoArgs == CallParamsNoArgs("calculator_add")
DivideOk == CallParams("calculator_divide", Obj2("a", JNum(1), "b", JNum(2)))
DivideByZero == CallParams("calculator_divide", Obj2("a", JNum(1), "b", JNum(0)))
EchoOk == CallParams("mock_tool", Obj1("echo", JStr("hi")))
EchoMissing == CallParams("mock_tool", EmptyObject)
RawCall == CallParams("raw_tool", EmptyObject)
UnknownTool == CallParams("non_existent_tool", EmptyObject)
NoName == Obj1("arguments", JObj(EmptyObject))
BadArguments == Obj2("name", JStr("mock_tool"), "arguments", JNum(1))

ToolCallMaps ==
    {AddOk, AddMissingB, AddBadType, AddNoArgs, DivideOk, DivideByZero, EchoOk,
     EchoMissing, RawCall, UnknownTool, NoName, BadArguments}

CallIds == {IdNum(1), IdStr("a"), IdNull}

PlainMethods == {"initialize", "tools/list", "resources/list"}

Requests ==
    {MethodCall(id, m, ParamsNone) : id \in CallIds, m \in PlainMethods}
    \cup {MethodCall(id, "tools/call", ParamsMap(m)) : id \in CallIds, m \in ToolCallMaps}
    \cup {MethodCall(id, "tools/call", p) : id \in CallIds, p \in {ParamsNone, ParamsArray}}
    \cup {MethodCall(IdNum(1), m, p) :
              m \in {"initialize", "tools/list"},
              p \in {ParamsArray, ParamsMap(NoName)}}
    \cup {Notification("notifications/initialized", ParamsNone),
          InvalidCall(IdNum(1)), Batch}

\* A second descriptor under MockTool's name.
MockTool2 == ManualTool("mock_tool", "Another mock tool", "any")

SingleTools == {MockTool, MockTool2, RawTool}
Providers == {CalculatorTools("offeryn"), CalculatorTools("mcp")}

(***************************************************************************)
(* Lines of the stdio input.  A line either cannot be read (the read       *)
(* fails, e.g. invalid UTF-8), is not a JSON document, or holds one.       *)
(***************************************************************************)
IoError == [line |-> "ioerr"]
\* A read that fails with an error of kind UnexpectedEof, which the
\* underlying reader may return (a truncated stream behind with_streams).
IoErrorEof == [line |-> "ioerr", kind |-> "UnexpectedEof"]
Garbage == [line |-> "garbage"]
Json(doc) == [line |-> "json", doc |-> doc]

CallDoc(idj, method) == JObj(("id" :> idj) @@ ("method" :> JStr(method)))
ToolCallDoc(idj, m) ==
    JObj(("id" :> idj) @@ ("method" :> JStr("tools/call")) @@ ("params" :> JObj(m)))

Lines ==
    {IoError, Garbage,
     Json(JNum(42)),
     Json(CallDoc(JBool(TRUE), "initialize")),
     Json(CallDoc(JNum(-1), "initialize")),
     Json(CallDoc(JNum(1), "initialize")),
     Json(CallDoc(JStr("a"), "tools/list")),
     Json(CallDoc(JNull, "resources/list")),
     Json(ToolCallDoc(JNum(2), AddOk)),
     Json(ToolCallDoc(JNum(1), UnknownTool)),
     Json(ToolCallDoc(JNum(2), AddMissingB)),
     Json(ToolCallDoc(JNum(1), DivideByZero)),
     Json(CallDoc(JStr("b"), "tools/call")),
     Json(JObj("method" :> JStr("notifications/initialized"))),
     Json(JObj(("id" :> JNum(3)) @@ ("method" :> JStr("initialize"))
               @@ ("extra_field" :> JNull))),
     Json(JArr(<<>>))}

\* Deserialize for Id: a number, a string or null.
IdOfJson(v) ==
    CASE v.j = "num" -> IdNum(v.v)
      [] v.j = "str" -> IdStr(v.v)
      [] OTHER -> IdNull

\* Id::Num holds a u64: a negative number is no id.
ValidId(v) == v.j \in {"str", "null"} \/ (v.j = "num" /\ v.v >= 0)

\* Deserialize for Params (absent params default to Params::None).
ParamsOfDoc(o) ==
    IF "params" \notin DOMAIN o \/ o["params"].j = "null" THEN ParamsNone
    ELSE IF o["params"].j = "obj" THEN ParamsMap(o["params"].v)
    ELSE ParamsArray

\* Deserialize for the untagged Call: MethodCall, then Notification (both
\* deny unknown fields), then Invalid {id}, whose id defaults to Null.
ParseCall(o) ==
    LET known == DOMAIN o \subseteq {"jsonrpc", "method", "params", "id"}
        methodOk == "method" \in DOMAIN o /\ o["method"].j = "str"
        paramsOk == "params" \notin DOMAIN o \/ o["params"].j \in {"null", "obj", "arr"}
        hasId == "id" \in DOMAIN o
    IN  CASE known /\ methodOk /\ paramsOk /\ hasId /\ ValidId(o["id"]) ->
                [ok |-> TRUE,
                 req |-> MethodCall(IdOfJson(o["id"]), o["method"].v, ParamsOfDoc(o))]
          [] known /\ methodOk /\ paramsOk /\ ~hasId ->
                [ok |-> TRUE, req |-> Notification(o["method"].v, ParamsOfDoc(o))]
          [] ~hasId -> [ok |-> TRUE, req |-> InvalidCall(IdNull)]
          [] hasId /\ ValidId(o["id"]) ->
                [ok |-> TRUE, req |-> InvalidCall(IdOfJson(o["id"]))]
          [] OTHER -> [ok |-> FALSE]

\* serde_json::from_slice::<Request>(&message)
ParseRequest(line) ==
    IF line.line /= "json" THEN [ok |-> FALSE]
    ELSE CASE line.doc.j = "obj" -> ParseCall(line.doc.v)
           [] line.doc.j = "arr" /\ line.doc.v = <<>> -> [ok |-> TRUE, req |-> Batch]
           [] OTHER -> [ok |-> FALSE]

\* The id put into a ParseError response: the line's "id" member when the
\* line is a JSON object holding an unsigned number there, otherwise 0.
RecoverId(line) ==
    IF /\ line.line = "json"
       /\ line.doc.j = "obj"
       /\ "id" \in DOMAIN line.doc.v
       /\ line.doc.v["id"].j = "num"
       /\ line.doc.v["id"].v >= 0
    THEN IdNum(line.doc.v["id"].v)
    ELSE IdNum(0)

\* The id of the InternalError response for a request handle_request
\* rejected.
ErrorId(req) == IF req.k = "MethodCall" THEN req.id ELSE IdNum(0)

\* A reader that passes the dispatcher's error kind on.
DispatchErrorResponseKeepsKind(req, e) == Failure(ErrorId(req), e)

\* The response the reader loop enqueues when handle_request returns Err.
DispatchErrorResponse(req, e) == Failure(ErrorId(req), "InternalError")

ParseErrorResponse(line) == Failure(RecoverId(line), "ParseError")

\* The registries a host has built before it starts a transport.
StartupRegistries ==
    {InsertAll(Insert(EmptyRegistry, MockTool), CalculatorTools("offeryn")),
     InsertAll(Insert(EmptyRegistry, MockTool), CalculatorTools("mcp"))}

\* The registrations that built them: with_tool, then register_tools.
StartupRegistrations ==
    {<<MockTool>> \o CalculatorTools("offeryn"), <<MockTool>> \o CalculatorTools("mcp")}

\* Bounds of the model.
MaxRegistered == 2
MaxParams == 2
MaxRecords == 2
QueueCapacity == 1
MaxSessions == 2
SseCapacity == 1

(***************************************************************************)
(* Bodies posted to /message (JsonRpcRequestWrapper: a method, and         *)
(* optionally an id and params) and the envelope built from one.           *)
(***************************************************************************)
Bodies ==
    {("id" :> JStr("a")) @@ ("method" :> JStr("tools/list")),
     ("id" :> JNum(2)) @@ ("method" :> JStr("tools/call")) @@ ("params" :> JObj(AddOk)),
     ("id" :> JNum(1)) @@ ("method" :> JStr("tools/call")) @@ ("params" :> JObj(UnknownTool)),
     ("id" :> JNum(1)) @@ ("method" :> JStr("tools/call")) @@ ("params" :> JObj(AddMissingB)),
     ("method" :> JStr("initialize")) @@ ("params" :> JArr(<<>>)),
     "method" :> JStr("notifications/initialized")}

\* The Request the /message route builds: always a MethodCall.  Params
\* that are not an object become Params::None; an absent (or null) id
\* becomes Id::Null and any other id Id::Num(id.as_u64().unwrap_or(0)).
BuildEnvelope(body) ==
    MethodCall(
        IF "id" \notin DOMAIN body \/ body["id"].j = "null" THEN IdNull
        ELSE IF body["id"].j = "num" THEN IdNum(body["id"].v)
        ELSE IdNum(0),
        body["method"].v,
        IF "params" \in DOMAIN body /\ body["params"].j = "obj"
        THEN ParamsMap(body["params"].v)
        ELSE ParamsNone)

\* An endpoint URL that leaves the session id out.
EndpointUrlNoSession(sid) == [path |-> "/message", sessionId |-> 0]

\* format!("/message?sessionId={}", session_id)
EndpointUrl(sid) == [path |-> "/message", sessionId |-> sid]

EndpointEvent(sid) == [event |-> "endpoint", data |-> EndpointUrl(sid)]

\* A push that leaves the event unnamed.
MessageEventUnnamed(resp) == [event |-> "", data |-> Serialize(resp)]

\* Event::default().event("message").data(serde_json::to_string(&response))
MessageEvent(resp) == [event |-> "message", data |-> Serialize(resp)]

\* A router that answers every rejection with not-found.
StatusNotFound(code) == [status |-> 404]

\* A reply that carries no envelope.
JsonReplyEmpty(resp) == [status |-> 200]

\* Replies of the /message route.
Status(code) == [status |-> code]
JsonReply(resp) == [status |-> 200, resp |-> resp]
NoReply == [status |-> 0]

\* The /message requests of the model: two, which may be in flight together.
Handlers == {1, 2}

\* The host keeps a clone of the Arc<Mutex<McpServer>> it gave the router,
\* and registers a provider through it while the router serves.
Host == 3
HostIdle == [pc |-> "idle", pending |-> <<>>]
HostProviders == {CalculatorTools("offeryn")}

\* A mutex that lets everyone in.
UnlockedAlways(l) == TRUE

\* tokio::sync::Mutex::lock().await returns once nobody holds the guard.
Unlocked(l) == l = 0

\* The entry of a name while tools.insert is writing it: the key is in
\* the map, the descriptor is not whole yet.
Partial(tool) == [tool EXCEPT !.description = "", !.params = <<>>]
Idle == [pc |-> "idle"]

(***************************************************************************)
(* State.                                                                  *)
(***************************************************************************)
VARIABLES
    tools,      \* McpServer.tools
    call,       \* the last direct handle_request: its request, the registry
                \* it ran against, what execute returned and its outcome
    registered, \* every descriptor handed to a registration, in order
    notified,   \* the last direct handle_notification and what it returned
    consumed,   \* stdio: the lines read so far
    rpc,        \* stdio: where the reader loop of run is
    rcur,       \* stdio: the invocation awaited or the response being sent
    queue,      \* stdio: the responses in the mpsc channel
    wpc,        \* stdio: where the writer task is
    wcur,       \* stdio: the response the writer task holds
    written,    \* stdio: the lines written and flushed
    wire,       \* stdio: what write_all has been given, piece by piece
    flushed,    \* stdio: how many pieces of wire the last flush covered
    answers,    \* stdio: every response enqueued, with the line it answers
    runResult,  \* stdio: what run returned
    ended,      \* stdio: what made the reader loop stop
    issued,     \* sse: the session ids given out, in order
    connections, \* sse: SseTransport.connections, session id -> sender
    chan,       \* sse: the events in each channel
    stream,     \* sse: where each channel's push stream is
    delivered,  \* sse: the events each push stream has yielded
    handler,    \* sse: the /message requests in flight or answered
    serverLock, \* sse: the holder of the tokio Mutex around McpServer
    host,       \* sse: the host's own use of the shared McpServer
    pushLog,    \* sse: every event sent, with its submit and its channel
    sig,        \* derive: the method signature a derive macro is applied to
    schema      \* derive: the input schema of the tool generated from it

NoExec == [r |-> "None"]
NoSchema == [type |-> "none"]
NoNotification == [method |-> "", res |-> Err("none")]
NoCall == [req |-> Batch, reg |-> EmptyRegistry, out |-> NoExec, res |-> Err("none"),
           error |-> [code |-> 0]]
Nothing == [tag |-> "None"]

dvars == <<tools, call, registered, notified>>
macrovars == <<sig, schema>>
iovars == <<consumed, rpc, rcur, queue, wpc, wcur, written, wire, flushed, answers,
            runResult, ended>>
ssevars == <<issued, connections, chan, stream, delivered, handler, serverLock, host,
             pushLog>>
vars == <<tools, call, registered, notified, consumed, rpc, rcur, queue, wpc, wcur, written, wire, flushed, answers,
          runResult, ended, issued, connections, chan, stream, delivered, handler, serverLock,
          host, pushLog, sig, schema>>

StdioInit ==
    /\ consumed = <<>>
    /\ rpc = "read"
    /\ rcur = Nothing
    /\ queue = <<>>
    /\ wpc = "recv"
    /\ wcur = Nothing
    /\ written = <<>>
    /\ wire = <<>>
    /\ flushed = 0
    /\ answers = <<>>
    /\ runResult = "running"
    /\ ended = "no"

SseInit ==
    /\ issued = <<>>
    /\ connections = <<>>
    /\ chan = <<>>
    /\ stream = <<>>
    /\ delivered = <<>>
    /\ handler = [h \in Handlers |-> Idle]
    /\ serverLock = 0
    /\ host = HostIdle
    /\ pushLog = <<>>

\* No macro expansion is looked at.
MacroInit ==
    /\ sig = MockTool
    /\ schema = NoSchema

Init ==
    /\ MacroInit
    /\ tools = EmptyRegistry
    /\ call = NoCall
    /\ registered = <<>>
    /\ notified = NoNotification
    /\ StdioInit
    /\ SseInit

(***************************************************************************)
(* The registry and the dispatcher, called directly.                       *)
(***************************************************************************)
\* with_tool / register_tool
RegisterTool(tool) ==
    /\ Len(registered) + 1 <= MaxRegistered
    /\ tools' = Insert(tools, tool)
    /\ registered' = Append(registered, tool)
    /\ UNCHANGED <<call, notified, iovars, macrovars, ssevars>>

\* with_tools / register_tools
RegisterTools(list) ==
    /\ Len(registered) + Len(list) <= MaxRegistered
    /\ tools' = InsertAll(tools, list)
    /\ registered' = registered \o list
    /\ UNCHANGED <<call, notified, iovars, macrovars, ssevars>>

\* A dispatcher that forgets the tool it has just looked up.
RegistryAfterForgets(reg, request) ==
    IF Route(reg, request).tag = "Invoke"
    THEN [n \in DOMAIN reg \ {Route(reg, request).tool.name} |-> reg[n]]
    ELSE reg

\* self.tools once handle_request has returned: no arm writes to it.
RegistryAfter(reg, request) == reg

\* One call of handle_request, run to completion, with the conversion of
\* its McpError, if it returned one.
Handle(request) ==
    /\ LET r == Route(tools, request)
       IN  IF r.tag = "Invoke"
           THEN \E out \in ExecuteOutcomes(r.tool, r.args) :
                   call' = [req |-> request, reg |-> tools, out |-> out,
                            res |-> Complete(r.id, out),
                            error |-> ErrorObject(Complete(r.id, out))]
           ELSE call' = [req |-> request, reg |-> tools, out |-> NoExec, res |-> r,
                         error |-> ErrorObject(r)]
    /\ tools' = RegistryAfter(tools, request)
    /\ UNCHANGED <<registered, notified, iovars, macrovars, ssevars>>

\* The methods handle_notification is called with.
NotificationMethods == {"notifications/initialized", "notifications/cancelled"}

\* handle_notification: Ok for notifications/initialized, MethodNotFound
\* for any other method; the params are ignored.
HandleNotification(method) ==
    /\ notified' = [method |-> method,
                    res |-> IF method = "notifications/initialized"
                            THEN [tag |-> "Ok"]
                            ELSE Err("MethodNotFound")]
    /\ UNCHANGED <<tools, call, registered, iovars, macrovars, ssevars>>

Next ==
    \/ \E t \in SingleTools : RegisterTool(t)
    \/ \E l \in Providers : RegisterTools(l)
    \/ \E r \in Requests : Handle(r)
    \/ \E m \in NotificationMethods : HandleNotification(m)

Spec == Init /\ [][Next]_vars

(***************************************************************************)
(* StdioServerTransport::run: the reader loop, the writer task and the     *)
(* channel between them.                                                   *)
(***************************************************************************)
\* The reader still holds the sender; the writer still holds the receiver.
TxOpen == rpc \in {"read", "exec", "send", "sendParseError"}
RxOpen == wpc \in {"recv", "write"}

\* The reader reads one line and handles it up to its first await.
ReadLine(line) ==
    /\ rpc = "read"
    /\ Len(consumed) < MaxRecords
    /\ consumed' = Append(consumed, line)
    /\ IF line.line = "ioerr"
       THEN UNCHANGED <<rpc, rcur>>
       ELSE LET p == ParseRequest(line)
            IN  IF ~p.ok
                THEN /\ rpc' = "sendParseError"
                     /\ rcur' = ParseErrorResponse(line)
                ELSE LET r == Route(tools, p.req)
                     IN  CASE r.tag = "Invoke" ->
                                /\ rpc' = "exec"
                                /\ rcur' = r
                           [] r.tag = "Ok" ->
                                /\ rpc' = "send"
                                /\ rcur' = r.resp
                           [] OTHER ->
                                /\ rpc' = "send"
                                /\ rcur' = DispatchErrorResponse(p.req, r.err)
    /\ UNCHANGED <<ssevars, dvars, macrovars, queue, wpc, wcur, written, wire, flushed,
                   answers, runResult, ended>>

\* read_line returned 0 bytes: the loop breaks and tx is dropped.
ReadEof ==
    /\ rpc = "read"
    /\ rpc' = "join"
    /\ ended' = "eof"
    /\ UNCHANGED <<ssevars, dvars, macrovars, consumed, rcur, queue, wpc, wcur, written, wire, flushed, answers,
                   runResult>>

\* read_line fails with an error whose kind is UnexpectedEof: the guard of
\* the break arm matches it as it matches the error read_message makes of
\* a read of 0 bytes, and the loop breaks.
ReadUnexpectedEof ==
    /\ rpc = "read"
    /\ Len(consumed) < MaxRecords
    /\ consumed' = Append(consumed, IoErrorEof)
    /\ rpc' = "join"
    /\ ended' = "readerr"
    /\ UNCHANGED <<ssevars, dvars, macrovars, rcur, queue, wpc, wcur, written, wire, flushed,
                   answers, runResult>>

\* tool.execute returns (or panics) and handle_request finishes.
ExecReturn ==
    /\ rpc = "exec"
    /\ \E out \in ExecuteOutcomes(rcur.tool, rcur.args) :
          LET res == Complete(rcur.id, out)
          IN  IF res.tag = "Panic"
              THEN /\ rpc' = "panicked"
                   /\ rcur' = Nothing
                   /\ runResult' = "panic"
                   /\ ended' = "panic"
              ELSE /\ rpc' = "send"
                   /\ rcur' = res.resp
                   /\ UNCHANGED <<runResult, ended>>
    /\ UNCHANGED <<ssevars, dvars, macrovars, consumed, queue, wpc, wcur, written, wire, flushed, answers>>

\* A reader that breaks on every failed send.
SendFailedAlwaysBreaks(pc) == "join"

\* A reader that reads on after every failed send.
SendFailedNeverBreaks(pc) == "read"

\* Where the reader goes when a send fails: `break` for the response of a
\* dispatched request, on for a ParseError response (let _ = tx.send(..)).
SendFailed(pc) == IF pc = "send" THEN "join" ELSE "read"

\* A channel without a bound.
HasRoomAlways(q) == TRUE

\* mpsc::channel(100), scaled to QueueCapacity: a send goes through while
\* fewer responses than the capacity wait in the channel.
HasRoom(q) == Len(q) < QueueCapacity

\* tx.send(response).await: waits while the channel is full, fails once the
\* receiver is gone.
Send ==
    /\ rpc \in {"send", "sendParseError"}
    /\ IF RxOpen
       THEN /\ HasRoom(queue)
            /\ queue' = Append(queue, rcur)
            /\ answers' = Append(answers,
                                 [k |-> Len(consumed), line |-> consumed[Len(consumed)],
                                  resp |-> rcur])
            /\ rpc' = "read"
            /\ UNCHANGED ended
       ELSE /\ rpc' = SendFailed(rpc)
            /\ ended' = IF SendFailed(rpc) = "join" THEN "send" ELSE ended
            /\ UNCHANGED <<queue, answers>>
    /\ rcur' = Nothing
    /\ UNCHANGED <<ssevars, dvars, macrovars, consumed, wpc, wcur, written, wire, flushed, runResult>>

\* rx.recv().await yields the next response.
Recv ==
    /\ wpc = "recv"
    /\ queue /= <<>>
    /\ wcur' = Head(queue)
    /\ queue' = Tail(queue)
    /\ wpc' = "write"
    /\ UNCHANGED <<ssevars, dvars, macrovars, consumed, rpc, rcur, written, wire, flushed, answers, runResult,
                   ended>>

\* A receiver that reports the close before the channel is drained.
RecvNoneUndrained(q, open) == ~open

\* When rx.recv() yields None: the sender was dropped and the channel has
\* been drained.
RecvNone(q, open) == q = <<>> /\ ~open

\* rx.recv().await yields None: the writer's loop ends.
RecvClosed ==
    /\ wpc = "recv"
    /\ RecvNone(queue, TxOpen)
    /\ wpc' = "done"
    /\ UNCHANGED <<ssevars, dvars, macrovars, consumed, rpc, rcur, queue, wcur, written, wire, flushed, answers,
                   runResult, ended>>

\* writer.write_all(b"\n")
Newline == [j |-> "nl"]

\* A writer that leaves the line terminator out.
FramedBare(message) == <<message>>

\* write_message up to its flush: the message, then the line terminator.
Framed(message) == <<message, Newline>>

\* write_message: the serialized response, a newline, a flush.
Write ==
    /\ wpc = "write"
    /\ written' = Append(written, Serialize(wcur))
    /\ wire' = wire \o Framed(Serialize(wcur))
    /\ flushed' = Len(wire')
    /\ wcur' = Nothing
    /\ wpc' = "recv"
    /\ UNCHANGED <<ssevars, dvars, macrovars, consumed, rpc, rcur, queue, answers, runResult,
                   ended>>

\* write_message fails, at its first write, its second or its flush: the
\* task returns the error, dropping rx and with it whatever the channel
\* still holds.  What was handed over before the failure is not flushed.
WriteFail ==
    /\ wpc = "write"
    /\ \E n \in 0..2 : wire' = wire \o SubSeq(Framed(Serialize(wcur)), 1, n)
    /\ UNCHANGED flushed
    /\ wcur' = Nothing
    /\ wpc' = "failed"
    /\ queue' = <<>>
    /\ UNCHANGED <<ssevars, dvars, macrovars, consumed, rpc, rcur, written, answers, runResult,
                   ended>>

\* A run that returns the error the writer task ended with.
JoinResultPropagates(w) == IF w = "failed" THEN "Err" ELSE "Ok"

\* What run returns once the writer task has been joined: the task's own
\* result is discarded (let _ = response_handler.await?; Ok(())).
JoinResult(w) == "Ok"

\* response_handler.await: run returns when the writer task has ended.
Join ==
    /\ rpc = "join"
    /\ wpc \in {"done", "failed"}
    /\ rpc' = "returned"
    /\ runResult' = JoinResult(wpc)
    /\ UNCHANGED <<ssevars, dvars, macrovars, consumed, rcur, queue, wpc, wcur, written, wire, flushed, answers,
                   ended>>

InitStdio ==
    /\ MacroInit
    /\ notified = NoNotification
    /\ tools \in StartupRegistries
    /\ \E l \in StartupRegistrations :
          registered = l /\ tools = InsertAll(EmptyRegistry, l)
    /\ call = NoCall
    /\ StdioInit
    /\ SseInit

NextStdio ==
    \/ \E line \in Lines : ReadLine(line)
    \/ ReadEof
    \/ ReadUnexpectedEof
    \/ ExecReturn
    \/ Send
    \/ Recv
    \/ RecvClosed
    \/ Write
    \/ WriteFail
    \/ Join

SpecStdio == InitStdio /\ [][NextStdio]_vars

(***************************************************************************)
(* SseTransport: the /sse route (sse_handler) and the /message route       *)
(* (the closure in create_router and message_handler).  Channels are       *)
(* numbered in the order they are created; connections maps a session id   *)
(* to the number of the channel whose sender it holds.                     *)
(***************************************************************************)
Channels == 1..Len(chan)

\* Uuid::new_v4(): an id no earlier session was given.
FreshSessionId == Len(issued) + 1

\* The receiver of a channel lives in its push stream.
RxAlive(c) == stream[c] /= "closed"

\* sse_handler: a new channel, a fresh id, the sender stored under the id.
OpenSession ==
    /\ Len(issued) < MaxSessions
    /\ LET sid == FreshSessionId
           c == Len(chan) + 1
       IN  /\ issued' = Append(issued, sid)
           /\ connections' = [s \in DOMAIN connections \cup {sid} |->
                                 IF s = sid THEN c ELSE connections[s]]
           /\ chan' = Append(chan, <<>>)
           /\ stream' = Append(stream, "endpoint")
           /\ delivered' = Append(delivered, <<>>)
    /\ UNCHANGED <<dvars, iovars, macrovars, host, handler, serverLock, pushLog>>

\* The stream's first item: the endpoint event, naming the session's id.
StreamEndpoint(c) ==
    /\ stream[c] = "endpoint"
    /\ delivered' = [delivered EXCEPT ![c] = Append(@, EndpointEvent(issued[c]))]
    /\ stream' = [stream EXCEPT ![c] = "forward"]
    /\ UNCHANGED <<dvars, iovars, macrovars, host, issued, connections, chan, handler, serverLock,
                   pushLog>>

\* while let Some(event) = rx.recv().await { yield event }
StreamForward(c) ==
    /\ stream[c] = "forward"
    /\ chan[c] /= <<>>
    /\ delivered' = [delivered EXCEPT ![c] = Append(@, Head(chan[c]))]
    /\ chan' = [chan EXCEPT ![c] = Tail(@)]
    /\ UNCHANGED <<dvars, iovars, macrovars, host, issued, connections, stream, handler, serverLock,
                   pushLog>>

\* The client disconnects: the stream is dropped, and with it the receiver
\* and whatever the channel holds.  The sender stays in connections.
CloseStream(c) ==
    /\ stream[c] /= "closed"
    /\ stream' = [stream EXCEPT ![c] = "closed"]
    /\ chan' = [chan EXCEPT ![c] = <<>>]
    /\ UNCHANGED <<dvars, iovars, macrovars, host, issued, connections, delivered, handler, serverLock,
                   pushLog>>

\* Requests are numbered in the order they arrive.
NextHandler(h) ==
    /\ handler[h].pc = "idle"
    /\ \A g \in Handlers : g < h => handler[g].pc /= "idle"

\* Where a request was sent: the route and the sessionId parameter of its
\* query (0 when the query has none).
Address(route, q) == [route |-> route, sessionId |-> q]

\* A request that has been answered: the reply, what the dispatcher returned,
\* the sender the request held (0 when it was turned away) and its address.
Answered(reply, res, tx, at) ==
    [pc |-> "done", reply |-> reply, res |-> res, tx |-> tx, at |-> at]

\* POST /message without a sessionId parameter.
SubmitNoSession(h, body) ==
    /\ NextHandler(h)
    /\ handler' = [handler EXCEPT ![h] = Answered(Status(400), Nothing, 0, Address("/message", 0))]
    /\ UNCHANGED <<dvars, iovars, macrovars, host, issued, connections, chan, stream, delivered,
                   serverLock, pushLog>>

\* A lookup that hands out the sender of the newest session.
LookupNewest(q) == Len(chan)

\* Any request to a route other than /sse and /message: the fallback.
UnknownRoute(h) ==
    /\ NextHandler(h)
    /\ handler' = [handler EXCEPT ![h] = Answered(Status(404), Nothing, 0,
                                                  Address("/other", 0))]
    /\ UNCHANGED <<dvars, iovars, macrovars, host, issued, connections, chan, stream, delivered,
                   serverLock, pushLog>>

\* state.connections.get(&session_id).cloned()
Lookup(q) == connections[q]

\* POST /message?sessionId=q: the envelope is built, and message_handler
\* looks the sender up under the directory lock.
Submit(h, q, body) ==
    /\ NextHandler(h)
    /\ IF q \notin DOMAIN connections
       THEN handler' = [handler EXCEPT ![h] = Answered(Status(404), Nothing, 0, Address("/message", q))]
       ELSE handler' = [handler EXCEPT ![h] =
                           [pc |-> "lock", query |-> q, body |-> body,
                            tx |-> Lookup(q), req |-> BuildEnvelope(body)]]
    /\ UNCHANGED <<dvars, iovars, macrovars, host, issued, connections, chan, stream, delivered,
                   serverLock, pushLog>>

\* A failure reply that carries the dispatcher's error.
InternalFailureDetailed(e) == [status |-> 500, error |-> ToJsonRpcError(e)]

\* .map_err(|e| { error!(..); StatusCode::INTERNAL_SERVER_ERROR })
InternalFailure(e) == Status(500)

\* message_handler from the point where handle_request has returned `res`:
\* a dispatcher error is answered 500; a Success response is sent on the
\* channel, which waits while the channel is full and is answered 500 once
\* the receiver is gone; the response is the reply.  The lock is released
\* when message_handler returns.
AfterDispatch(h, res) ==
    LET tx == handler[h].tx
        done(reply) == [handler EXCEPT ![h] = Answered(reply, res, tx, Address("/message", handler[h].query))]
    IN  CASE res.tag = "Err" ->
                 /\ handler' = done(InternalFailure(res.err))
                 /\ serverLock' = 0
                 /\ UNCHANGED <<chan, pushLog>>
          [] res.tag = "Ok" /\ res.resp.kind /= "Success" ->
                 /\ handler' = done(JsonReply(res.resp))
                 /\ serverLock' = 0
                 /\ UNCHANGED <<chan, pushLog>>
          [] res.tag = "Ok" /\ res.resp.kind = "Success" /\ ~RxAlive(tx) ->
                 /\ handler' = done(Status(500))
                 /\ serverLock' = 0
                 /\ UNCHANGED <<chan, pushLog>>
          [] res.tag = "Ok" /\ res.resp.kind = "Success" /\ RxAlive(tx)
                /\ Len(chan[tx]) < SseCapacity ->
                 /\ chan' = [chan EXCEPT ![tx] = Append(@, MessageEvent(res.resp))]
                 /\ pushLog' = Append(pushLog,
                                      [h |-> h, sid |-> handler[h].query, chan |-> tx,
                                       event |-> MessageEvent(res.resp)])
                 /\ handler' = done(JsonReply(res.resp))
                 /\ serverLock' = 0
          [] OTHER ->
                 /\ handler' = [handler EXCEPT ![h] =
                                   [pc |-> "post", query |-> @.query, body |-> @.body,
                                    tx |-> @.tx, req |-> @.req, cur |-> res]]
                 /\ serverLock' = h
                 /\ UNCHANGED <<chan, pushLog>>

\* server.lock().await, then handle_request up to its first await: the
\* await of tool.execute, if the request gets that far.
Acquire(h) ==
    /\ handler[h].pc = "lock"
    /\ Unlocked(serverLock)
    /\ LET r == Route(tools, handler[h].req)
       IN  IF r.tag = "Invoke"
           THEN /\ handler' = [handler EXCEPT ![h] =
                                  [pc |-> "exec", query |-> @.query, body |-> @.body,
                                   tx |-> @.tx, req |-> @.req, cur |-> r]]
                /\ serverLock' = h
                /\ UNCHANGED <<chan, pushLog>>
           ELSE AfterDispatch(h, r)
    /\ UNCHANGED <<dvars, iovars, macrovars, host, issued, connections, stream, delivered>>

\* tool.execute returns, or panics, which unwinds the request's task and
\* releases the lock without a reply.
SseExecReturn(h) ==
    /\ handler[h].pc = "exec"
    /\ \E out \in ExecuteOutcomes(handler[h].cur.tool, handler[h].cur.args) :
          LET res == Complete(handler[h].cur.id, out)
          IN  IF res.tag = "Panic"
              THEN /\ handler' = [handler EXCEPT ![h] = Answered(NoReply, res, @.tx, Address("/message", @.query))]
                   /\ serverLock' = 0
                   /\ UNCHANGED <<chan, pushLog>>
              ELSE AfterDispatch(h, res)
    /\ UNCHANGED <<dvars, iovars, macrovars, host, issued, connections, stream, delivered>>

\* A send that found the channel full goes on once there is room or the
\* receiver is gone.
Post(h) ==
    /\ handler[h].pc = "post"
    /\ Len(chan[handler[h].tx]) < SseCapacity \/ ~RxAlive(handler[h].tx)
    /\ AfterDispatch(h, handler[h].cur)
    /\ UNCHANGED <<dvars, iovars, macrovars, host, issued, connections, stream, delivered>>

\* server.lock().await.register_tools(provider): the guard is taken and
\* the first insertion starts.
HostLock(list) ==
    /\ host.pc = "idle"
    /\ Unlocked(serverLock)
    /\ serverLock' = Host
    /\ host' = [pc |-> "insert", pending |-> list]
    /\ tools' = Insert(tools, Partial(Head(list)))
    /\ UNCHANGED <<call, registered, notified, iovars, macrovars, issued, connections, chan, stream,
                   delivered, handler, pushLog>>

\* One tools.insert completes.  After the last one register_tools returns
\* and the guard is dropped; otherwise the next insertion starts.
HostInsert ==
    /\ host.pc = "insert"
    /\ registered' = Append(registered, Head(host.pending))
    /\ IF Tail(host.pending) = <<>>
       THEN /\ tools' = Insert(tools, Head(host.pending))
            /\ host' = [pc |-> "done", pending |-> <<>>]
            /\ serverLock' = 0
       ELSE /\ tools' = Insert(Insert(tools, Head(host.pending)),
                               Partial(Head(Tail(host.pending))))
            /\ host' = [pc |-> "insert", pending |-> Tail(host.pending)]
            /\ UNCHANGED serverLock
    /\ UNCHANGED <<call, notified, iovars, macrovars, issued, connections, chan, stream, delivered,
                   handler, pushLog>>

\* The registrations that built the registry the router starts with.
SseStartup == <<MockTool>> \o CalculatorTools("mcp")

\* The registry of the SSE calculator example and tests.
SseRegistry == InsertAll(Insert(EmptyRegistry, MockTool), CalculatorTools("mcp"))

InitSse ==
    /\ MacroInit
    /\ notified = NoNotification
    /\ tools = SseRegistry
    /\ registered = SseStartup
    /\ call = NoCall
    /\ StdioInit
    /\ SseInit

NextSse ==
    \/ OpenSession
    \/ \E c \in Channels : StreamEndpoint(c)
    \/ \E c \in Channels : StreamForward(c)
    \/ \E c \in Channels : CloseStream(c)
    \/ \E h \in Handlers, body \in Bodies : SubmitNoSession(h, body)
    \/ \E h \in Handlers : UnknownRoute(h)
    \/ \E h \in Handlers, q \in 1..MaxSessions, body \in Bodies : Submit(h, q, body)
    \/ \E h \in Handlers : Acquire(h)
    \/ \E h \in Handlers : SseExecReturn(h)
    \/ \E h \in Handlers : Post(h)
    \/ \E l \in HostProviders : HostLock(l)
    \/ HostInsert

SpecSse == InitSse /\ [][NextSse]_vars

(***************************************************************************)
(* The derive macros, applied to one method signature: #[tool] of          *)
(* offeryn-derive and #[mcp_tool] of mcp-derive generate the tool's        *)
(* input_schema from the parameters after the receiver.                    *)
(***************************************************************************)
ParamNamePool == <<"required", "optional", "value">>
ParamNames == {ParamNamePool[i] : i \in 1..MaxParams}

\* A parameter of type T is not optional, one of type Option<T> is.
SigParams == {Param(n, ty, o) : n \in ParamNames, ty \in {"i64", "String"}, o \in BOOLEAN}

\* Parameter lists: the names of a signature's parameters differ.
ParamLists ==
    UNION {{ps \in [1..k -> SigParams] :
               \A i, j \in 1..k : i /= j => ps[i].name /= ps[j].name} :
           k \in 0..MaxParams}

Signatures ==
    {DerivedTool(d, "test_struct_method", "A method", "method", ps, "Result") :
        d \in {"offeryn", "mcp"}, ps \in ParamLists}

InitSchema ==
    /\ sig \in Signatures
    /\ schema = NoSchema
    /\ tools = EmptyRegistry
    /\ call = NoCall
    /\ registered = <<>>
    /\ notified = NoNotification
    /\ StdioInit
    /\ SseInit

\* The generated tool's input_schema() is called.
DeriveSchema ==
    /\ schema = NoSchema
    /\ schema' = InputSchema(sig)
    /\ UNCHANGED <<sig, dvars, iovars, ssevars>>

NextSchema == DeriveSchema

SpecSchema == InitSchema /\ [][NextSchema]_vars

(***************************************************************************)
(* Properties.                                                             *)
(***************************************************************************)
\* The request of a line, for lines that decode.
RequestOf(line) == ParseRequest(line).req

\* A tools/call whose name is well formed and not a key of the registry.
UnknownToolCall(reg, req) ==
    /\ req.k = "MethodCall"
    /\ req.method = "tools/call"
    /\ req.params.p = "Map"
    /\ ParseCallToolRequest(req.params.m).ok
    /\ ParseCallToolRequest(req.params.m).name \notin DOMAIN reg

\* C1: for every tools/call naming a tool the registry does not hold, the
\* response the stream transport writes is a failure whose code is
\* MethodNotFound (-32601), never InternalError (-32603).
C1_UnknownToolIsMethodNotFound ==
    \A i \in 1..Len(written) :
        (/\ ParseRequest(answers[i].line).ok
         /\ UnknownToolCall(tools, RequestOf(answers[i].line)))
        => /\ "error" \in DOMAIN written[i]
           /\ written[i].error.code = -32601

\* C2: whenever the invocation returns a ToolResult, handle_request returns
\* a Success response with the request's id, one text entry per content
\* item in the same order with the same text, and isError equal to the
\* ToolResult's is_error; a ToolResult flagged is_error still yields Success.
C2_ToolResultRepackaged ==
    call.out.r = "Ok" =>
        /\ call.res.tag = "Ok"
        /\ call.res.resp.kind = "Success"
        /\ call.res.resp.id = call.req.id
        /\ Len(call.res.resp.result.content) = Len(call.out.content)
        /\ \A i \in 1..Len(call.out.content) :
              call.res.resp.result.content[i] =
                  [type |-> "text", text |-> call.out.content[i].text]
        /\ call.res.resp.result.isError = call.out.is_error

\* A ToolResult of two items, the first not declared as text, flagged
\* is_error, has been repackaged.
C2_Witness ==
    /\ call.out.r = "Ok"
    /\ call.out.is_error
    /\ Len(call.out.content) = 2
    /\ call.out.content[1].type = "image"
    /\ call.res.tag = "Ok"

\* The argument bag of a tools/call lacks a required argument of the tool
\* it names, or holds one of the wrong type.
MalformedArguments(reg, req) ==
    /\ req.k = "MethodCall"
    /\ req.method = "tools/call"
    /\ req.params.p = "Map"
    /\ LET c == ParseCallToolRequest(req.params.m)
           given == IF c.ok /\ c.arguments.some THEN c.arguments.m ELSE EmptyObject
       IN  /\ c.ok
           /\ c.name \in DOMAIN reg
           /\ \/ /\ reg[c.name].derive /= "manual"
                 /\ \E i \in 1..Len(reg[c.name].params) :
                       LET q == reg[c.name].params[i]
                       IN  /\ ~q.optional
                           /\ \/ q.name \notin DOMAIN given
                              \/ FromValue(q.ty, given[q.name]).st /= "ok"
              \/ /\ reg[c.name].method = "echo"
                 /\ \/ "echo" \notin DOMAIN given
                    \/ given["echo"].j /= "str"

\* C3: a tools/call whose invocation fails hard (a required argument is
\* missing or has the wrong type) yields a Failure with the generic
\* server-error code and the request's id; the dispatcher does not crash.
C3_HardFailureIsServerError ==
    MalformedArguments(call.reg, call.req) =>
        call.res = Ok(Failure(call.req.id, "ServerError"))

\* C4: every response enqueued for a method call carries the id of that
\* call, and the line written for it carries the id the request line held.
C4_IdEchoed ==
    /\ \A i \in 1..Len(answers) :
          (/\ ParseRequest(answers[i].line).ok
           /\ RequestOf(answers[i].line).k = "MethodCall")
          => answers[i].resp.id = RequestOf(answers[i].line).id
    /\ \A i \in 1..Len(written) :
          (/\ ParseRequest(answers[i].line).ok
           /\ RequestOf(answers[i].line).k = "MethodCall")
          => written[i].id = answers[i].line.doc.v["id"]

\* A tools/list with a string id and a call of an unknown method with a
\* null id have been answered in writing, each with its id.
C4_Witness ==
    /\ Len(written) = 2
    /\ \A i \in 1..2 : /\ ParseRequest(answers[i].line).ok
                       /\ RequestOf(answers[i].line).k = "MethodCall"
    /\ written[1].id = JStr("a")
    /\ "result" \in DOMAIN written[1]
    /\ written[2].id = JNull
    /\ "error" \in DOMAIN written[2]

\* C5: the ids issued to push sessions are pairwise distinct, and an event
\* pushed for a submit tagged with session id s is placed on the channel
\* that was created for s.
C5_SessionIsolation ==
    /\ \A i, j \in 1..Len(issued) : i /= j => issued[i] /= issued[j]
    /\ \A i \in 1..Len(pushLog) :
          /\ pushLog[i].chan \in 1..Len(issued)
          /\ issued[pushLog[i].chan] = pushLog[i].sid

\* Two sessions are open and alive, and a response to a submit tagged with
\* the first session's id has been pushed.
C5_Witness ==
    /\ Len(issued) = 2
    /\ \A c \in 1..2 : stream[c] = "forward"
    /\ \E i \in 1..Len(pushLog) : pushLog[i].sid = issued[1]

\* The events pushed for submit h.
PushesOf(h) == {i \in 1..Len(pushLog) : pushLog[i].h = h}

\* The submit h was dispatched and the dispatcher returned a response.
Dispatched(h) == handler[h].pc = "done" /\ handler[h].res.tag = "Ok"

\* C6 as stated: for every submit to a session in the directory, a Success
\* response is pushed as exactly one "message" event holding its
\* serialization and is the direct reply; a Failure response is not pushed
\* and is the direct reply.
C6_PushEverySuccess ==
    \A h \in Handlers : Dispatched(h) =>
        LET resp == handler[h].res.resp
        IN  /\ handler[h].reply = [status |-> 200, resp |-> resp]
            /\ IF resp.kind = "Success"
               THEN /\ Cardinality(PushesOf(h)) = 1
                    /\ \A i \in PushesOf(h) :
                          pushLog[i].event =
                              [event |-> "message", data |-> Serialize(resp)]
               ELSE PushesOf(h) = {}

\* C6, amended: a Success response is pushed as exactly one "message"
\* event holding its serialization, on the session's channel, and is the
\* direct reply, unless the session's push stream has closed, in which
\* case nothing is pushed and the reply is the status 500; a Failure
\* response is not pushed and is the direct reply.
C6_PushSuccessWhileStreamOpen ==
    \A h \in Handlers : Dispatched(h) =>
        LET resp == handler[h].res.resp
        IN  IF resp.kind = "Success"
            THEN \/ /\ handler[h].reply = [status |-> 200, resp |-> resp]
                    /\ Cardinality(PushesOf(h)) = 1
                    /\ \A i \in PushesOf(h) :
                          /\ pushLog[i].event =
                                 [event |-> "message", data |-> Serialize(resp)]
                          /\ pushLog[i].chan = connections[pushLog[i].sid]
                 \/ /\ handler[h].reply = [status |-> 500]
                    /\ PushesOf(h) = {}
                    /\ stream[handler[h].tx] = "closed"
            ELSE /\ handler[h].reply = [status |-> 200, resp |-> resp]
                 /\ PushesOf(h) = {}

\* One submit's Success was pushed and returned, another's Failure was
\* returned without a push.
C6_Witness ==
    \E h, g \in Handlers :
        /\ Dispatched(h) /\ Dispatched(g)
        /\ handler[h].res.resp.kind = "Success"
        /\ Cardinality(PushesOf(h)) = 1
        /\ handler[h].reply.status = 200
        /\ handler[g].res.resp.kind = "Failure"
        /\ handler[g].reply.status = 200
        /\ PushesOf(g) = {}

\* A line that was read and is not a JSON-RPC request.
Undecodable(line) == line.line /= "ioerr" /\ ~ParseRequest(line).ok

\* The reader is done with the k-th line.
Handled(k) == k < Len(consumed) \/ rpc \in {"read", "join", "returned"}

\* The responses enqueued for the k-th line.
AnswersTo(k) == {i \in 1..Len(answers) : answers[i].k = k}

C8_CleanShutdown ==
    /\ rpc = "returned" => wpc \in {"done", "failed"} /\ runResult = "Ok"
    /\ wpc = "done" =>
          /\ ~TxOpen
          /\ queue = <<>>
          /\ written = [i \in 1..Len(answers) |-> Serialize(answers[i].resp)]
    /\ (rpc = "returned" /\ ended = "eof" /\ wpc /= "failed") =>
          /\ wpc = "done"
          /\ Len(written) = Len(answers)

\* Two requests were answered, the input ended, and run has returned with
\* both responses written.
C8_Witness ==
    /\ rpc = "returned"
    /\ ended = "eof"
    /\ wpc = "done"
    /\ runResult = "Ok"
    /\ Len(answers) = 2
    /\ Len(written) = 2

\* C9: the stream transport enqueues no response for a line that is a
\* notification (a request without an id).
C9_NoReplyToNotification ==
    \A i \in 1..Len(answers) :
        ParseRequest(answers[i].line).ok
        => RequestOf(answers[i].line).k /= "Notification"

\* C10: while a tool invocation is pending for one submit, a submit on
\* another session that waits to be dispatched can be dispatched.
C10_PendingToolStallsOnlyItsSubmit ==
    \A g, h \in Handlers :
        (/\ handler[g].pc = "exec"
         /\ handler[h].pc = "lock"
         /\ handler[h].query /= handler[g].query)
        => ENABLED Acquire(h)

\* C11: when the session's channel is full at the moment a Success response
\* is to be pushed, the submit is answered with a transport error at once:
\* no submit is ever suspended in the send, waiting for room.
C11_FullChannelIsDeliveryFailure ==
    \A h \in Handlers : handler[h].pc /= "post"

\* C12: a submit that carries the id of a session whose push connection has
\* closed is answered not-found and goes no further: no submit is accepted
\* for dispatch with the sender of a closed stream.
C12_ClosedSessionIsUnknown ==
    [][\A h \in Handlers :
          (handler[h].pc = "idle" /\ handler'[h].pc = "lock")
          => stream[handler'[h].tx] /= "closed"]_vars

\* C13 as stated: whenever the dispatcher has produced a response for a
\* submit, that response is the direct reply, whether the push was
\* performed, skipped or failed.
C13_ResponseIsAlwaysReply ==
    \A h \in Handlers : Dispatched(h) =>
        handler[h].reply = [status |-> 200, resp |-> handler[h].res.resp]

\* C13, amended: the dispatcher's response is the direct reply whenever the
\* push was performed or skipped; when the push fails, which happens only
\* for a Success response whose session's push stream has closed, the reply
\* is the status 500 without the response.
C13_ResponseIsReplyUnlessPushFailed ==
    \A h \in Handlers : Dispatched(h) =>
        \/ handler[h].reply = [status |-> 200, resp |-> handler[h].res.resp]
        \/ /\ handler[h].reply = [status |-> 500]
           /\ handler[h].res.resp.kind = "Success"
           /\ stream[handler[h].tx] = "closed"
           /\ PushesOf(h) = {}

\* One submit's Success was pushed and returned; another's Success could
\* not be pushed and was answered 500.
C13_Witness ==
    \E h, g \in Handlers :
        /\ Dispatched(h) /\ Dispatched(g)
        /\ handler[h].res.resp.kind = "Success"
        /\ PushesOf(h) /= {}
        /\ handler[h].reply.status = 200
        /\ handler[g].res.resp.kind = "Success"
        /\ PushesOf(g) = {}
        /\ handler[g].reply.status = 500

\* C14: a request to an undefined route is answered 404, a submit without
\* a sessionId 400 and a submit whose sessionId names no session 404; for
\* none of them, and for no request answered 400 or 404, is handle_request
\* called or an event pushed.
C14_RejectionsBypassDispatcher ==
    \A h \in Handlers : handler[h].pc = "done" =>
        LET a == handler[h].at
            untouched == /\ handler[h].res = [tag |-> "None"]
                         /\ handler[h].tx = 0
                         /\ PushesOf(h) = {}
        IN  /\ a.route /= "/message"
               => handler[h].reply = [status |-> 404] /\ untouched
            /\ (a.route = "/message" /\ a.sessionId = 0)
               => handler[h].reply = [status |-> 400] /\ untouched
            /\ (a.route = "/message" /\ a.sessionId /= 0
                   /\ a.sessionId \notin DOMAIN connections)
               => handler[h].reply = [status |-> 404] /\ untouched
            /\ handler[h].reply.status \in {400, 404} => untouched

\* With one session open, a submit without sessionId was answered 400 and a
\* submit naming a session that does not exist 404.
C14_Witness ==
    /\ Len(issued) = 1
    /\ \E h, g \in Handlers :
          /\ handler[h].pc = "done"
          /\ handler[h].at = [route |-> "/message", sessionId |-> 0]
          /\ handler[h].reply.status = 400
          /\ handler[g].pc = "done"
          /\ handler[g].at = [route |-> "/message", sessionId |-> 2]
          /\ handler[g].reply.status = 404

\* C15: a push stream yields nothing before its endpoint event; the first
\* event of every stream is the endpoint event, whose data is
\* /message?sessionId=<id> with the id of the stream's session, and every
\* event after it is a message event.
C15_EndpointEventFirst ==
    \A c \in Channels :
        /\ stream[c] = "endpoint" => delivered[c] = <<>>
        /\ stream[c] = "forward" => delivered[c] /= <<>>
        /\ delivered[c] /= <<>> =>
              /\ delivered[c][1] =
                    [event |-> "endpoint",
                     data |-> [path |-> "/message", sessionId |-> issued[c]]]
              /\ \A i \in 2..Len(delivered[c]) : delivered[c][i].event = "message"

\* One stream has yielded its endpoint event and then a message; on
\* another a response is waiting in the channel before the stream was
\* first polled.
C15_Witness ==
    \E c, d \in Channels :
        /\ c /= d
        /\ Len(delivered[c]) = 2
        /\ delivered[c][2].event = "message"
        /\ stream[d] = "endpoint"
        /\ chan[d] /= <<>>

\* The reader loop of run has been left.
ReaderStopped == rpc \in {"join", "returned", "panicked"}

\* C16: clean end-of-stream is the only thing that ends the reader loop.
C16_OnlyEofEndsReader ==
    ReaderStopped => ended = "eof"

\* C17: the ParseError response for a record that does not decode carries
\* the id member of the record when the record is a JSON object with one,
\* and the fallback id 0 otherwise.
C17_ParseErrorCarriesRecordId ==
    \A i \in 1..Len(answers) :
        Undecodable(answers[i].line) =>
            LET l == answers[i].line
            IN  IF l.line = "json" /\ l.doc.j = "obj" /\ "id" \in DOMAIN l.doc.v
                THEN Serialize(answers[i].resp).id = l.doc.v["id"]
                ELSE answers[i].resp.id = IdNum(0)

\* The responses that have left the queue: written, or held by the writer.
Taken == Len(written) + (IF wpc = "write" THEN 1 ELSE 0)

C19_BoundedQueueBackpressure ==
    /\ Len(queue) <= QueueCapacity
    /\ (rpc \in {"send", "sendParseError"} /\ RxOpen /\ Len(queue) = QueueCapacity)
       => /\ ~ENABLED Send
          /\ ~ENABLED (\E line \in Lines : ReadLine(line))
          /\ ~ENABLED ReadEof
    /\ wpc /= "failed" =>
          /\ Taken + Len(queue) = Len(answers)
          /\ \A j \in 1..Len(queue) : queue[j] = answers[Taken + j].resp

\* The queue is full, the writer has not yet taken anything, and the
\* reader is suspended with the next response in hand.
C19_Witness ==
    /\ Len(queue) = QueueCapacity
    /\ wpc = "recv"
    /\ rpc = "send"
    /\ Len(consumed) = Len(answers) + 1

\* C20: for a method call whose method is none of initialize, tools/list
\* and tools/call, handle_request returns Ok with a Failure that carries
\* the call's id, the code MethodNotFound and the message "Method not
\* found".
C20_UnknownMethodIsMethodNotFound ==
    (/\ call.req.k = "MethodCall"
     /\ call.req.method \notin {"initialize", "tools/list", "tools/call"})
    => /\ call.res.tag = "Ok"
       /\ call.res.resp.kind = "Failure"
       /\ call.res.resp.id = call.req.id
       /\ call.res.resp.code = "MethodNotFound"
       /\ Serialize(call.res.resp).error =
             [code |-> -32601, message |-> "Method not found"]

\* resources/list with a string id has been dispatched against a registry
\* that holds tools.
C20_Witness ==
    /\ call.req.k = "MethodCall"
    /\ call.req.method = "resources/list"
    /\ call.req.id = [t |-> "Str", s |-> "a"]
    /\ DOMAIN call.reg /= {}
    /\ call.res.tag = "Ok"

\* The names a sequence of registrations has used.
Names(log) == {log[i].name : i \in 1..Len(log)}

\* The descriptor registered last under name n.
LastUnder(log, n) ==
    log[CHOOSE i \in 1..Len(log) :
            /\ log[i].name = n
            /\ \A k \in (i + 1)..Len(log) : log[k].name /= n]

\* A tools/list that ran against the registry as it is now.
ListedNow ==
    /\ call.req.k = "MethodCall"
    /\ call.req.method = "tools/list"
    /\ call.reg = tools

\* C21: after any sequence of registrations the registry holds exactly the
\* names registered so far (none is ever removed), each with the descriptor
\* registered last under it, and a tools/list run then has exactly one
\* entry per name, with that descriptor's description and schema.
C21_LastRegistrationWins ==
    /\ DOMAIN tools = Names(registered)
    /\ \A n \in Names(registered) : tools[n] = LastUnder(registered, n)
    /\ ListedNow =>
          /\ call.res.tag = "Ok"
          /\ call.res.resp.kind = "Success"
          /\ \A n \in Names(registered) :
                {e \in call.res.resp.result.tools : e.name = n} =
                    {[name |-> n,
                      description |-> LastUnder(registered, n).description,
                      inputSchema |-> InputSchema(LastUnder(registered, n))]}
          /\ \A e \in call.res.resp.result.tools : e.name \in Names(registered)

\* mock_tool was registered, then registered again with another
\* description, and tools/list was then run: it has the one entry.
C21_Witness ==
    /\ Len(registered) = 2
    /\ registered[1].name = "mock_tool"
    /\ registered[2].name = "mock_tool"
    /\ registered[1].description /= registered[2].description
    /\ ListedNow
    /\ call.res.tag = "Ok"
    /\ Cardinality(call.res.resp.result.tools) = 1

\* C22: tools/list returns a Success with the call's id whose tools list
\* has one {name, description, inputSchema} entry per registered tool, as
\* many entries as the registry has names, and no next-page token,
\* whatever params the request carries.
C22_ListHasOneEntryPerTool ==
    (call.req.k = "MethodCall" /\ call.req.method = "tools/list") =>
        /\ call.res.tag = "Ok"
        /\ call.res.resp.kind = "Success"
        /\ call.res.resp.id = call.req.id
        /\ DOMAIN call.res.resp.result = {"tools"}
        /\ Cardinality(call.res.resp.result.tools) = Cardinality(DOMAIN call.reg)
        /\ \A e \in call.res.resp.result.tools :
              /\ DOMAIN e = {"name", "description", "inputSchema"}
              /\ e.name \in DOMAIN call.reg
              /\ e.description = call.reg[e.name].description
              /\ e.inputSchema = InputSchema(call.reg[e.name])
        /\ \A n \in DOMAIN call.reg :
              \E e \in call.res.resp.result.tools : e.name = n

\* tools/list carrying a params object was run against a registry of two
\* tools.
C22_Witness ==
    /\ call.req.k = "MethodCall"
    /\ call.req.method = "tools/list"
    /\ call.req.params.p = "Map"
    /\ Cardinality(DOMAIN call.reg) = 2
    /\ call.res.tag = "Ok"
    /\ Cardinality(call.res.resp.result.tools) = 2

\* C23: initialize returns a Success with the call's id in every state and
\* with any params; its result holds the protocol version 2024-11-05, the
\* name and version the server was constructed with, the fixed
\* instructions, and capabilities.tools mapping exactly the registered
\* names, each to true.
C23_InitializeAlwaysSucceeds ==
    (call.req.k = "MethodCall" /\ call.req.method = "initialize") =>
        /\ call.res.tag = "Ok"
        /\ call.res.resp.kind = "Success"
        /\ call.res.resp.id = call.req.id
        /\ call.res.resp.result.protocolVersion = "2024-11-05"
        /\ call.res.resp.result.serverInfo =
              [name |-> "test-server", version |-> "1.0.0"]
        /\ call.res.resp.result.instructions =
              "Use tools/list to see available tools"
        /\ DOMAIN call.res.resp.result.capabilities = {"tools"}
        /\ DOMAIN call.res.resp.result.capabilities.tools = DOMAIN call.reg
        /\ \A n \in DOMAIN call.reg :
              call.res.resp.result.capabilities.tools[n] = TRUE

\* initialize carrying positional params was run as the first request
\* against a registry of two tools.
C23_Witness ==
    /\ call.req.k = "MethodCall"
    /\ call.req.method = "initialize"
    /\ call.req.params.p = "Array"
    /\ Cardinality(DOMAIN call.reg) = 2
    /\ call.res.tag = "Ok"
    /\ DOMAIN call.res.resp.result.capabilities.tools = DOMAIN call.reg

\* A tools/list method call.
IsList(c) == c.req.k = "MethodCall" /\ c.req.method = "tools/list"

\* C24: every step that handles a request or a notification leaves the
\* registry as it was, and a tools/list handled after another tools/list,
\* with the registry unchanged in between, returns the same result.
C24_HandlingLeavesRegistry ==
    [][(call' /= call \/ notified' /= notified) =>
          /\ tools' = tools
          /\ registered' = registered
          /\ (IsList(call) /\ IsList(call') /\ call.reg = tools) =>
                call'.res.resp.result = call.res.resp.result]_vars

\* With two tools registered, a notification with an unknown method has
\* been handled and tools/list has run against the registry as it is now.
C24_Witness ==
    /\ IsList(call)
    /\ call.reg = tools
    /\ Cardinality(DOMAIN tools) = 2
    /\ notified.method = "notifications/cancelled"

\* The registry after the first k registrations.
RegistryAt(k) == InsertAll(EmptyRegistry, SubSeq(registered, 1, k))

\* The submit h was answered by a Success.
Succeeded(h) == Dispatched(h) /\ handler[h].res.resp.kind = "Success"

\* C25: while a registration holds the server no request reads the
\* registry, and the other way round; the tool a tools/call runs is a whole
\* registered descriptor, and what initialize and tools/list return is
\* computed from the registry as it was after a whole number of
\* insertions, never from one with an insertion under way.
C25_RegistryOperationsExclusive ==
    /\ host.pc = "insert" =>
          /\ serverLock = 3
          /\ \A h \in Handlers : handler[h].pc \notin {"exec", "post"}
    /\ host.pc /= "insert" => tools = RegistryAt(Len(registered))
    /\ \A h \in Handlers :
          /\ handler[h].pc = "exec" =>
                \E i \in 1..Len(registered) : handler[h].cur.tool = registered[i]
          /\ (Succeeded(h) /\ "capabilities" \in DOMAIN handler[h].res.resp.result) =>
                \E k \in Len(SseStartup)..Len(registered) :
                    handler[h].res.resp.result = InitializeResult(RegistryAt(k))
          /\ (Succeeded(h) /\ "tools" \in DOMAIN handler[h].res.resp.result) =>
                \E k \in Len(SseStartup)..Len(registered) :
                    handler[h].res.resp.result = ListToolsResult(RegistryAt(k))

\* The host is between the two insertions of a provider, one submit waits
\* for the server, and an earlier submit's tools/list was answered.
C25_Witness ==
    /\ host.pc = "insert"
    /\ Len(host.pending) = 1
    /\ \E h, g \in Handlers :
          /\ handler[h].pc = "lock"
          /\ Succeeded(g)
          /\ "tools" \in DOMAIN handler[g].res.resp.result

\* handle_request has been called.
Called == call.res /= [tag |-> "Err", err |-> "none"]

\* The params of a tools/call that are not a map, or a map that does not
\* decode into {name, optional arguments}.
UndecodableCallParams(params) ==
    \/ params.p /= "Map"
    \/ "name" \notin DOMAIN params.m
    \/ params.m["name"].j /= "str"
    \/ /\ "arguments" \in DOMAIN params.m
       /\ params.m["arguments"].j \notin {"obj", "null"}

\* C26: a request that is not a single method call is rejected as
\* InvalidRequest; a tools/call whose params are not a map or do not decode
\* as InvalidParams; a tools/call naming an unknown tool as MethodNotFound,
\* and an unknown method is answered by a MethodNotFound failure; nothing
\* else is rejected; and each kind converts to the protocol error code of
\* the same kind (-32600, -32602, -32601), InternalError to -32000.
C26_ErrorClassification ==
    /\ Called =>
          /\ call.req.k /= "MethodCall" => call.res = [tag |-> "Err", err |-> "InvalidRequest"]
          /\ (call.req.k = "MethodCall" /\ call.req.method = "tools/call") =>
                IF UndecodableCallParams(call.req.params)
                THEN call.res = [tag |-> "Err", err |-> "InvalidParams"]
                ELSE IF call.req.params.m["name"].v \notin DOMAIN call.reg
                THEN call.res = [tag |-> "Err", err |-> "MethodNotFound"]
                ELSE call.res.tag /= "Err"
          /\ (/\ call.req.k = "MethodCall"
              /\ call.req.method \notin {"initialize", "tools/list", "tools/call"}) =>
                /\ call.res.tag = "Ok"
                /\ call.res.resp.kind = "Failure"
                /\ call.res.resp.code = "MethodNotFound"
          /\ (call.req.k = "MethodCall" /\ call.req.method \in {"initialize", "tools/list"})
                => call.res.tag = "Ok"
          /\ call.res.tag = "Err" =>
                call.error.code =
                    CASE call.res.err = "InvalidRequest" -> -32600
                      [] call.res.err = "InvalidParams" -> -32602
                      [] call.res.err = "MethodNotFound" -> -32601
    /\ ToJsonRpcError("InternalError").code = -32000

\* A tools/call whose arguments member is a number was rejected as
\* InvalidParams and converted to the code -32602.
C26_Witness ==
    /\ call.req.k = "MethodCall"
    /\ call.req.method = "tools/call"
    /\ call.req.params.p = "Map"
    /\ "arguments" \in DOMAIN call.req.params.m
    /\ call.req.params.m["arguments"].j = "num"
    /\ call.res.tag = "Err"
    /\ call.error.code = -32602

\* The last call was a tools/call of a derived tool whose arguments all
\* deserialized, so that the tool's method ran.
MethodRan ==
    /\ call.req.k = "MethodCall"
    /\ call.req.method = "tools/call"
    /\ ~UndecodableCallParams(call.req.params)
    /\ call.req.params.m["name"].v \in DOMAIN call.reg
    /\ LET t == call.reg[call.req.params.m["name"].v]
           a == ParseCallToolRequest(call.req.params.m).arguments
           args == IF a.some THEN a.m ELSE EmptyObject
       IN  /\ t.derive /= "manual"
           /\ \A i \in 1..Len(t.params) :
                 /\ t.params[i].name \in DOMAIN args
                 /\ FromValue(t.params[i].ty, args[t.params[i].name]).st = "ok"

\* What the method of the derived tool just called returned.
MethodOutcome ==
    LET t == call.reg[call.req.params.m["name"].v]
        a == ParseCallToolRequest(call.req.params.m).arguments
        args == IF a.some THEN a.m ELSE EmptyObject
    IN  CallMethod(t.method, [i \in 1..Len(t.params) |-> args[t.params[i].name].v])

\* C27: when the method of a derived tool has run, execute returns
\* Ok(ToolResult) with a single text item: the error message and is_error
\* = true if the method returns a two-outcome result and failed, the
\* rendered value and is_error = false otherwise; and tools/call answers
\* with a Success carrying that item and that flag.
C27_MethodOutcomeIsToolResult ==
    MethodRan =>
        LET t == call.reg[call.req.params.m["name"].v]
            failed == t.returns = "Result" /\ ~MethodOutcome.ok
        IN  /\ call.out = [r |-> "Ok",
                           content |-> <<[type |-> "text", text |-> MethodOutcome.text]>>,
                           is_error |-> failed]
            /\ call.res.tag = "Ok"
            /\ call.res.resp.kind = "Success"
            /\ call.res.resp.result =
                  [content |-> <<[type |-> "text", text |-> MethodOutcome.text]>>,
                   isError |-> failed]

\* calculator_divide was called with a = 1 and b = 0: the answer is a
\* Success flagged isError whose text is the method's message.
C27_Witness ==
    /\ MethodRan
    /\ call.req.params.m["name"].v = "calculator_divide"
    /\ call.res.tag = "Ok"
    /\ call.res.resp.kind = "Success"
    /\ call.res.resp.result.isError
    /\ call.res.resp.result.content[1].text = "Cannot divide by zero"

\* The names of the signature's parameters that are, or are not, optional.
SigNames(optional) ==
    {sig.params[i].name : i \in {k \in 1..Len(sig.params) : sig.params[k].optional = optional}}

\* C28: the derived schema's required set is exactly the names of the
\* non-optional parameters and holds no optional parameter's name, and
\* properties holds every parameter's name; both are empty for a method
\* without parameters.
C28_RequiredIsNonOptional ==
    schema /= NoSchema =>
        /\ schema.required = SigNames(FALSE)
        /\ schema.required \cap SigNames(TRUE) = {}
        /\ DOMAIN schema.properties = SigNames(FALSE) \cup SigNames(TRUE)
        /\ sig.params = <<>> => schema.required = {} /\ DOMAIN schema.properties = {}

\* The k-th line decoded and the dispatcher rejected it with a hard failure.
Rejected(k) ==
    /\ consumed[k].line /= "ioerr"
    /\ ParseRequest(consumed[k]).ok
    /\ \A r \in HandleRequest(tools, RequestOf(consumed[k])) : r.tag = "Err"

ReadFailed(k) == consumed[k].line = "ioerr"

\* C30: at a read, the reader loop ends only when the read returns zero
\* bytes; every read that fails, whatever the kind of its error, enqueues
\* no response and leaves the loop at its next read (which only a read of
\* zero bytes after it ends).
C30_ReadErrorsAreTransient ==
    /\ (ReaderStopped /\ ended \notin {"send", "panic"}) => ended = "eof"
    /\ \A k \in 1..Len(consumed) : ReadFailed(k) =>
          /\ AnswersTo(k) = {}
          /\ (k = Len(consumed)) => (rpc = "read" \/ ended = "eof")

\* The params a submitted body carries, as a Params value.
ParamsOfBody(body) ==
    IF "params" \notin DOMAIN body \/ body["params"].j = "null" THEN ParamsNone
    ELSE IF body["params"].j = "obj" THEN ParamsMap(body["params"].v)
    ELSE ParamsArray

\* The id a submitted body carries (null when it carries none).
IdOfBody(body) == IF "id" \in DOMAIN body THEN IdOfJson(body["id"]) ELSE IdNull

\* A submit that holds the envelope built from its body.
Enveloped(h) == handler[h].pc \in {"lock", "exec", "post"}

\* C31: the envelope a submit hands to the dispatcher has the method, the
\* id and the params of the submitted body, whatever id (number, string,
\* null, none) and params (object, array, none) the body carries.
C31_EnvelopeKeepsBody ==
    \A h \in Handlers : Enveloped(h) =>
        /\ handler[h].req.method = handler[h].body["method"].v
        /\ handler[h].req.id = IdOfBody(handler[h].body)
        /\ handler[h].req.params = ParamsOfBody(handler[h].body)

\* The dispatcher returned a hard failure for the submit h.
DispatchFailed(h) == handler[h].pc = "done" /\ handler[h].res.tag = "Err"

\* C32: a submit for which the dispatcher raises a hard failure, of
\* whatever kind, is answered with the bare status 500, without the
\* dispatcher's error and without a response envelope, and no event is
\* pushed for it on any channel.
C32_DispatchFailureIsBareStatus ==
    \A h \in Handlers : DispatchFailed(h) =>
        /\ handler[h].reply = [status |-> 500]
        /\ PushesOf(h) = {}

\* Two submits to one open session: the dispatcher failed the call of an
\* unknown tool with MethodNotFound, which was answered 500 with nothing
\* pushed, while the other submit was answered and pushed.
C32_Witness ==
    \E h, g \in Handlers :
        /\ DispatchFailed(h) /\ handler[h].res.err = "MethodNotFound"
        /\ handler[h].reply.status = 500
        /\ handler[h].tx /= 0
        /\ Dispatched(g) /\ handler[g].tx = handler[h].tx
        /\ Len(pushLog) = 1 /\ pushLog[1].h = g

(***************************************************************************)
(* Invocation of one tool through tools/call: a registry holding a single  *)
(* tool, the mock tool or a tool derived from a drawn signature, and calls *)
(* of it with each argument bag over its parameters, or with no arguments  *)
(* member.                                                                 *)
(***************************************************************************)
\* The values an argument may have: null, a number, a string.
ArgValues == {JNull, JNum(1), JStr("x")}

\* Every argument bag over the parameter names of the tool.
ArgumentBags(tool) ==
    LET names == {tool.params[i].name : i \in 1..Len(tool.params)}
    IN  UNION {[d -> ArgValues] : d \in SUBSET names}

\* The params of a tools/call of the tool: with a bag, or without the
\* arguments member.
InvokeParams(tool) ==
    {CallParams(tool.name, bag) : bag \in ArgumentBags(tool)}
    \cup {CallParamsNoArgs(tool.name)}

\* The tools invoked: the mock tool and the tools derived from the
\* signatures whose parameters are integers or optional integers.
InvokedTools ==
    {s \in Signatures : \A i \in 1..Len(s.params) : s.params[i].ty = "i64"}
    \cup {MockTool}

InitInvoke ==
    /\ sig \in InvokedTools
    /\ schema = NoSchema
    /\ tools = Insert(EmptyRegistry, sig)
    /\ registered = <<sig>>
    /\ call = NoCall
    /\ notified = NoNotification
    /\ StdioInit
    /\ SseInit

NextInvoke ==
    \E m \in InvokeParams(sig) : Handle(MethodCall(IdNum(1), "tools/call", ParamsMap(m)))

SpecInvoke == InitInvoke /\ [][NextInvoke]_vars

\* The call just handled is a tools/call of a registered tool that carries
\* no arguments member.
CalledWithoutArguments ==
    /\ call.req.k = "MethodCall"
    /\ call.req.method = "tools/call"
    /\ call.req.params.p = "Map"
    /\ DOMAIN call.req.params.m = {"name"}
    /\ call.req.params.m["name"].j = "str"
    /\ call.req.params.m["name"].v \in DOMAIN call.reg

\* The same call with arguments = {}.
WithEmptyArguments(req) ==
    MethodCall(req.id, req.method,
               ParamsMap(CallParams(req.params.m["name"].v, EmptyObject)))

\* C33: a tools/call without an arguments member is answered as the same
\* call with arguments = {} is; a tool without parameters is invoked and
\* answers Success with is_error = false.
C33_AbsentArgumentsAreEmpty ==
    CalledWithoutArguments =>
        /\ call.res \in HandleRequest(call.reg, WithEmptyArguments(call.req))
        /\ LET t == call.reg[call.req.params.m["name"].v]
           IN  (t.derive /= "manual" /\ t.params = <<>>) =>
                   /\ call.res.tag = "Ok"
                   /\ call.res.resp.kind = "Success"
                   /\ ~call.res.resp.result.isError

\* A derived tool without parameters was called without arguments and
\* answered Success.
C33_Witness ==
    /\ CalledWithoutArguments
    /\ call.reg[call.req.params.m["name"].v].derive = "offeryn"
    /\ call.reg[call.req.params.m["name"].v].params = <<>>
    /\ call.res.tag = "Ok"
    /\ call.res.resp.kind = "Success"

\* The k-th read produced a record (it did not fail).
IsRecord(k) == consumed[k].line /= "ioerr"

\* The reader has left the k-th record behind: it reads on, has left the
\* loop, or was unwound by a panic.
LeftBehind(k) == k < Len(consumed) \/ rpc \in {"read", "join", "returned", "panicked"}

\* C34: in a run without write failures every record the reader has read
\* and left behind has exactly one response enqueued, and no record ever
\* has more than one; when such a run has returned, as many lines were
\* written as records were read.
C34_OneResponsePerRecord ==
    /\ \A k \in 1..Len(consumed) : Cardinality(AnswersTo(k)) <= 1
    /\ wpc /= "failed" =>
          /\ \A k \in 1..Len(consumed) :
                (IsRecord(k) /\ LeftBehind(k)) => Cardinality(AnswersTo(k)) = 1
          /\ runResult /= "running" =>
                Len(written) = Cardinality({k \in 1..Len(consumed) : IsRecord(k)})

\* The number of records among the first k reads.
RecordsUpTo(k) == Cardinality({j \in 1..k : IsRecord(j)})

\* The reader is at a read: one of the read actions can be taken next.
CanRead ==
    \/ ENABLED (\E line \in Lines : ReadLine(line))
    \/ ENABLED ReadEof
    \/ ENABLED ReadUnexpectedEof

\* The i-th response enqueued answers the i-th record read, and while the
\* response of the current record has not been enqueued (its tool
\* invocation is pending, or its send is) nothing is read.
InRecordOrder ==
    /\ \A i \in 1..Len(answers) : RecordsUpTo(answers[i].k) = i /\ IsRecord(answers[i].k)
    /\ \A i \in 1..Len(written) : written[i] = Serialize(answers[i].resp)
    /\ rpc \in {"exec", "send", "sendParseError"} => ~CanRead

Unsent(k) ==
    /\ IsRecord(k)
    /\ AnswersTo(k) = {}
    /\ k < Len(consumed) \/ rpc \in {"read", "join", "returned"}

C37_RunReturnsOkAfterWriterError ==
    /\ runResult \in {"running", "Ok", "panic"}
    /\ rpc = "returned" <=> runResult = "Ok"
    /\ runResult = "panic" <=> rpc = "panicked"
    /\ (rpc = "join" /\ wpc \in {"done", "failed"}) => ENABLED Join
    /\ wpc = "failed" =>
          /\ queue = <<>>
          /\ Len(written) < Len(answers)
          /\ \A i \in 1..Len(written) : written[i] = Serialize(answers[i].resp)

\* The writer failed on the first response while the second waited in the
\* queue; the input ended; run returned Ok with neither response written.
C37_Witness ==
    /\ rpc = "returned"
    /\ runResult = "Ok"
    /\ wpc = "failed"
    /\ ended = "eof"
    /\ Len(answers) = 2
    /\ written = <<>>

\* The submit h is inside the critical section: it holds the dispatcher
\* lock, its tool invocation or its push pending.
InCriticalSection(h) == handler[h].pc \in {"exec", "post"}

\* In this step the submit h takes the dispatcher lock and is dispatched.
DispatchStep(h) == handler[h].pc = "lock" /\ handler'[h].pc /= "lock"

\* In this step the response of the submit h is pushed.
PushStep(h) ==
    /\ Len(pushLog') = Len(pushLog) + 1
    /\ pushLog'[Len(pushLog')].h = h

\* C38: a submit is dispatched, and its response pushed, only while no
\* other submit is between its dispatch and its push, and the push is made
\* by the holder of the dispatcher lock; so every other submit has either
\* finished (its push, if any, came earlier) or is not yet dispatched (its
\* push, if any, comes later), and pushes follow the order of dispatch.
C38_DispatchAndPushAtomic ==
    [][\A h \in Handlers :
          /\ (DispatchStep(h) \/ PushStep(h)) =>
                \A g \in Handlers \ {h} :
                    /\ ~InCriticalSection(g)
                    /\ handler'[g] = handler[g]
          /\ DispatchStep(h) => serverLock = 0
          /\ PushStep(h) => serverLock \in {0, h} /\ handler'[h].pc = "done"
          /\ InCriticalSection(h)' => serverLock' = h]_vars

\* Two submits to one session were both answered Success and pushed onto
\* its channel, the one that arrived second first.
C38_Witness ==
    /\ Len(pushLog) = 2
    /\ pushLog[1].sid = pushLog[2].sid
    /\ pushLog[1].h = 2
    /\ pushLog[2].h = 1
    /\ \A h \in Handlers : handler[h].pc = "done" /\ handler[h].reply.status = 200

\* A value is of a property's type: of the type named, or null when the
\* property is nullable.
ValueFits(v, prop) ==
    \/ prop.type = "integer" /\ v.j = "num"
    \/ prop.type = "string" /\ v.j = "str"
    \/ prop.nullable /\ v.j = "null"

\* The input schema admits the argument bag: every required name is
\* present and every argument fits its property.
Admits(sch, bag) ==
    /\ sch.required \subseteq DOMAIN bag
    /\ \A n \in DOMAIN bag : n \in DOMAIN sch.properties /\ ValueFits(bag[n], sch.properties[n])

\* The call just handled is a tools/call of the registered derived tool
\* with an argument bag.
CalledWithBag ==
    /\ call.req.k = "MethodCall"
    /\ call.req.method = "tools/call"
    /\ call.req.params.p = "Map"
    /\ DOMAIN call.req.params.m = {"name", "arguments"}
    /\ call.req.params.m["name"].v \in DOMAIN call.reg
    /\ call.reg[call.req.params.m["name"].v].derive /= "manual"

CalledTool == call.reg[call.req.params.m["name"].v]
CalledBag == call.req.params.m["arguments"].v

\* C39: a call of a derived tool with an argument bag that the tool's own
\* input schema admits does not fail hard, and each parameter reaches the
\* method as none when it is absent or null and as its value otherwise.
C39_AdmittedBagIsAccepted ==
    (CalledWithBag /\ Admits(InputSchema(CalledTool), CalledBag)) =>
        /\ call.out.r = "Ok"
        /\ call.res.tag = "Ok"
        /\ call.res.resp.kind = "Success"
        /\ \A i \in 1..Len(CalledTool.params) :
              LET q == CalledTool.params[i]
                  d == DeserArg(CalledTool.derive, q, CalledBag)
              IN  /\ d.st = "ok"
                  /\ d.val = IF q.name \notin DOMAIN CalledBag \/ CalledBag[q.name].j = "null"
                             THEN "None"
                             ELSE CalledBag[q.name].v

=============================================================================
